---- MODULE Spec2Model ----
(***************************************************************************)
(* Model of the media routes of dim (src/src/routes/media.rs): the seven   *)
(* Rocket handlers get_media_by_id, get_extra_info_by_id,                  *)
(* update_media_by_id, delete_media_by_id, tmdb_search, rematch and        *)
(* map_progress, over a catalog (media, mediafile, season, episode, genre, *)
(* progress tables) whose lookups may fail.                                *)
(*                                                                         *)
(* Option<T> is modelled as a sequence of length 0 (None) or 1 (Some(x)),  *)
(* Result<T, E> as a record [ok, val] / [ok, err].  The `?` operator is    *)
(* modelled as an early return of Err.  Every handler yields its result    *)
(* together with the list of collaborator calls it made, in order.        *)
(* Pass-through columns (description, rating, year, added, poster_path,    *)
(* backdrop_path, poster) are copied verbatim by the code and are left out.*)
(***************************************************************************)
EXTENDS Integers, Sequences, FiniteSets, TLC

\* Longest file list a media item is given in the initial catalogs.
MaxFiles == 2
\* Most episodes the first season of the show is given in the initial catalogs.
MaxEpisodes == 2

VARIABLES
    media,       \* media table: id -> Option<Media>
    mediafiles,  \* mediafile table: media id -> files in storage order
    genres,      \* genre names per media id
    seasons,     \* season table: show media id -> seasons in catalog order
    episodes,    \* episode table: season id -> episodes in catalog order
    progress,    \* progress table: a set of rows [user_id, media_id, delta]
    failing,     \* the catalog lookups that currently return Err
    recorded,    \* history: (user, media) -> Option<offset of the last map_progress that returned Ok>
    resp         \* the last request served and its outcome

vars == <<media, mediafiles, genres, seasons, episodes, progress, failing, recorded, resp>>
catalog == <<media, mediafiles, genres, seasons, episodes, failing>>

----------------------------------------------------------------------------
\* Option and Result

None == <<>>
Some(x) == <<x>>
IsSome(o) == Len(o) = 1
Unwrap(o) == o[1]

Ok(v) == [ok |-> TRUE, val |-> v]
Err(e) == [ok |-> FALSE, err |-> e]

\* What a handler did: its result and the collaborator calls it made.
Reply(r, c) == [result |-> r, calls |-> c]

\* Rust's `/` on i32: the quotient truncated toward zero.
RustDiv(a, b) == IF a >= 0 THEN a \div b ELSE -((-a) \div b)

Last(s) == s[Len(s)]

----------------------------------------------------------------------------
\* The universe of the model

\* 1: a streamable item, 2: a show, 31, 32, 33, 41: episodes, 9: no such row.
EpisodeIds == {30 + i : i \in 1..(MaxEpisodes + 1)} \cup {41}
MediaIds == {1, 2, 9} \cup EpisodeIds
SeasonIds == {21, 22}
Users == {1, 2}
MediaTypes == {None, Some("Movie"), Some("Tv"), Some("Episode")}

Media(id, ty) == [id |-> id, library_id |-> 1, name |-> "m" \o ToString(id), media_type |-> ty]

MediaFile(id, m, dur, vc, ac, res) ==
    [id |-> id, media_id |-> m, library_id |-> 1,
     target_file |-> "/lib/" \o ToString(id) \o ".mkv",
     duration |-> dur, codec |-> vc, audio |-> ac, original_resolution |-> res]

Season(id, n) == [id |-> id, season_number |-> n]
Episode(id, s, n) == [id |-> id, seasonid |-> s, episode |-> n, media |-> Media(id, Some("Episode"))]

----------------------------------------------------------------------------
\* The catalog store (crate `database`), as the handlers use it

Broken(fn, key) == <<fn, key>> \in failing

\* Media::get: the row, NotFound when there is none.
Media_get(id) ==
    IF Broken("Media::get", id) THEN Err("DatabaseError")
    ELSE IF id \notin DOMAIN media \/ media[id] = None THEN Err("NotFoundError")
    ELSE Ok(Unwrap(media[id]))

\* MediaFile::get_of_media: the files of a media item in storage order.
MediaFile_get_of_media(m) ==
    IF Broken("MediaFile::get_of_media", m.id) THEN Err("DatabaseError")
    ELSE IF m.id \in DOMAIN mediafiles THEN Ok(mediafiles[m.id]) ELSE Ok(<<>>)

\* Genre::get_by_media
Genre_get_by_media(id) ==
    IF Broken("Genre::get_by_media", id) THEN Err("DatabaseError")
    ELSE IF id \in DOMAIN genres THEN Ok(genres[id]) ELSE Ok(<<>>)

\* Season::get_all: the seasons of a show in catalog order.
Season_get_all(id) ==
    IF Broken("Season::get_all", id) THEN Err("DatabaseError")
    ELSE IF id \in DOMAIN seasons THEN Ok(seasons[id]) ELSE Ok(<<>>)

\* Episode::get_all_of_season
Episode_get_all_of_season(s) ==
    IF Broken("Episode::get_all_of_season", s.id) THEN Err("DatabaseError")
    ELSE IF s.id \in DOMAIN episodes THEN Ok(episodes[s.id]) ELSE Ok(<<>>)

RECURSIVE EpisodesOf(_)
EpisodesOf(ss) ==
    IF ss = <<>> THEN <<>>
    ELSE (IF Head(ss).id \in DOMAIN episodes THEN episodes[Head(ss).id] ELSE <<>>)
         \o EpisodesOf(Tail(ss))

\* Episode::get_all_of_tv: the episodes of every season of the show.
Episode_get_all_of_tv(m) ==
    IF Broken("Episode::get_all_of_tv", m.id) THEN Err("DatabaseError")
    ELSE IF m.id \in DOMAIN seasons THEN Ok(EpisodesOf(seasons[m.id])) ELSE Ok(<<>>)

----------------------------------------------------------------------------
\* get_media_by_id (GET /api/v1/media/<id>)

\* Lines 67-70: `Ok(mut x) => x.pop()?.duration?, Err(_) => 0`.  A failed
\* lookup is 0; `?` on the None of an empty list or of an unprobed last file
\* returns from the handler with the error converted from NoneError.
LastFileDuration(fs) ==
    IF ~fs.ok THEN Ok(0)
    ELSE IF fs.val = <<>> THEN Err("NoneError")
    ELSE IF ~IsSome(Last(fs.val).duration) THEN Err("NoneError")
    ELSE Ok(Unwrap(Last(fs.val).duration))

\* EpisodeLen reading the first file (`x.first()`) instead of the last.
EpisodeLen_FirstFile(x) ==
    LET fs == MediaFile_get_of_media(x.media)
    IN  IF ~fs.ok THEN None
        ELSE IF fs.val = <<>> THEN None
        ELSE Head(fs.val).duration

\* Lines 85-87 for one episode: what it adds to total_len.
EpisodeLen(x) ==
    LET fs == MediaFile_get_of_media(x.media)
    IN  IF ~fs.ok THEN None
        ELSE IF fs.val = <<>> THEN None
        ELSE Last(fs.val).duration

RECURSIVE TotalLen(_)
TotalLen(eps) ==
    IF eps = <<>> THEN 0
    ELSE (IF IsSome(EpisodeLen(Head(eps))) THEN Unwrap(EpisodeLen(Head(eps))) ELSE 0)
         + TotalLen(Tail(eps))

EpisodeFileCalls(eps) == [i \in 1..Len(eps) |-> <<"MediaFile::get_of_media", eps[i].media.id>>]

\* Lines 77-91: the display string, by media type.
DurationPretty(data, duration) ==
    IF data.media_type = Some("Tv")
    THEN LET all_eps == Episode_get_all_of_tv(data)
             c == << <<"Episode::get_all_of_tv", data.id>> >>
         IN  IF ~all_eps.ok THEN Reply(Err(all_eps.err), c)
             ELSE Reply(Ok(ToString(Len(all_eps.val)) \o " episodes | "
                           \o ToString(RustDiv(TotalLen(all_eps.val), 3600)) \o " hr"),
                        c \o EpisodeFileCalls(all_eps.val))
    ELSE Reply(Ok(ToString(RustDiv(duration, 60)) \o " min"), <<>>)

get_media_by_id(id) ==
    LET data == Media_get(id)
        c1 == << <<"Media::get", id>> >>
    IN  IF ~data.ok THEN Reply(Err(data.err), c1)
        ELSE
        LET d == data.val
            duration == LastFileDuration(MediaFile_get_of_media(d))
            c2 == Append(c1, <<"MediaFile::get_of_media", d.id>>)
        IN  IF ~duration.ok THEN Reply(Err(duration.err), c2)
            ELSE
            LET g == Genre_get_by_media(d.id)
                c3 == Append(c2, <<"Genre::get_by_media", d.id>>)
            IN  IF ~g.ok THEN Reply(Err(g.err), c3)
                ELSE
                LET pretty == DurationPretty(d, duration.val)
                    c4 == c3 \o pretty.calls
                IN  IF ~pretty.result.ok THEN Reply(Err(pretty.result.err), c4)
                    ELSE Reply(Ok([id |-> d.id, library_id |-> d.library_id,
                                   name |-> d.name, media_type |-> d.media_type,
                                   genres |-> g.val, duration |-> duration.val,
                                   duration_pretty |-> pretty.result.val]), c4)

Served(op, id, user, arg, r) ==
    [op |-> op, id |-> id, user |-> user, arg |-> arg, result |-> r.result, calls |-> r.calls]

GetSummary(id) ==
    /\ resp' = Served("get_media_by_id", id, 0, None, get_media_by_id(id))
    /\ UNCHANGED <<catalog, progress, recorded>>

----------------------------------------------------------------------------
\* The progress store (crate `database`): one row per (user, media)

ProgressRows(uid, mid) == {r \in progress : r.user_id = uid /\ r.media_id = mid}

\* Progress::get_for_media_user: the row of (uid, mid), NotFound when there is none.
Progress_get_for_media_user(uid, mid) ==
    IF ProgressRows(uid, mid) = {} THEN Err("NotFoundError")
    ELSE Ok(CHOOSE r \in ProgressRows(uid, mid) : TRUE)

\* Progress::set: the table after an upsert of (uid, mid) -> delta.
Progress_set(delta, uid, mid) ==
    (progress \ ProgressRows(uid, mid))
        \cup {[user_id |-> uid, media_id |-> mid, delta |-> delta]}

----------------------------------------------------------------------------
\* get_extra_info_by_id (GET /api/v1/media/<id>/info)

UnwrapOr(o, default) == IF IsSome(o) THEN Unwrap(o) ELSE default

\* Lines 149-153 and 177-181: the format! of one file's display name.
DisplayName(x) ==
    UnwrapOr(x.codec, "Unknown VC") \o " - "
    \o UnwrapOr(x.audio, "Unknwon AC") \o " - "
    \o UnwrapOr(x.original_resolution, "Unknown res") \o " - Library "
    \o ToString(x.library_id)

\* Lines 146-154 and 174-182: one descriptor per file, in the list's order.
Versions(media_files) ==
    [i \in 1..Len(media_files) |->
        [id |-> media_files[i].id, file |-> media_files[i].target_file,
         display_name |-> DisplayName(media_files[i])]]

\* ProgressOf looking the row up by media alone, whoever the user is.
ProgressOf_AnyUser(user, mid) ==
    LET rows == {r \in progress : r.media_id = mid}
    IN  IF rows = {} THEN 0 ELSE (CHOOSE r \in rows : TRUE).delta

\* Lines 143-145 and 167-169: `.map(|x| x.delta).unwrap_or(0)`.
ProgressOf(user, mid) ==
    LET p == Progress_get_for_media_user(user, mid)
    IN  IF p.ok THEN p.val.delta ELSE 0

get_for_streamable(m, user) ==
    LET media_files == MediaFile_get_of_media(m)
        c1 == << <<"MediaFile::get_of_media", m.id>> >>
    IN  IF ~media_files.ok THEN Reply(Err(media_files.err), c1)
        ELSE Reply(Ok([progress |-> ProgressOf(user, m.id),
                       versions |-> Versions(media_files.val)]),
                   Append(c1, <<"Progress::get_for_media_user", m.id>>))

get_for_episode(ep, user) ==
    LET media_files == MediaFile_get_of_media(ep.media)
        c1 == << <<"MediaFile::get_of_media", ep.media.id>> >>
    IN  IF ~media_files.ok THEN Reply(Err(media_files.err), c1)
        ELSE Reply(Ok([id |-> ep.id, progress |-> ProgressOf(user, ep.id),
                       episode |-> ep.episode,
                       versions |-> Versions(media_files.val)]),
                   Append(c1, <<"Progress::get_for_media_user", ep.id>>))

\* Line 202: `y.into_iter().filter_map(|z| get_for_episode(&conn, z, &user).ok())`.
RECURSIVE EpisodeEntries(_, _)
EpisodeEntries(eps, user) ==
    IF eps = <<>> THEN [vals |-> <<>>, calls |-> <<>>]
    ELSE LET r == get_for_episode(Head(eps), user)
             rest == EpisodeEntries(Tail(eps), user)
         IN  [vals |-> (IF r.result.ok THEN <<r.result.val>> ELSE <<>>) \o rest.vals,
              calls |-> r.calls \o rest.calls]

\* SeasonEntries keeping a season whose episode lookup failed, with no episodes
\* (`unwrap_or_default()` in place of `filter_map(.. .ok())`).
RECURSIVE SeasonEntries_KeepFailed(_, _)
SeasonEntries_KeepFailed(ss, user) ==
    IF ss = <<>> THEN [vals |-> <<>>, calls |-> <<>>]
    ELSE LET x == Head(ss)
             y == Episode_get_all_of_season(x)
             c == << <<"Episode::get_all_of_season", x.id>> >>
             rest == SeasonEntries_KeepFailed(Tail(ss), user)
             es == EpisodeEntries(IF y.ok THEN y.val ELSE <<>>, user)
         IN  [vals |-> <<[id |-> x.id, season_number |-> x.season_number,
                          episodes |-> es.vals]>> \o rest.vals,
              calls |-> c \o es.calls \o rest.calls]

\* Lines 194-205: the seasons whose episode lookup is Ok, each with its episodes.
RECURSIVE SeasonEntries(_, _)
SeasonEntries(ss, user) ==
    IF ss = <<>> THEN [vals |-> <<>>, calls |-> <<>>]
    ELSE LET x == Head(ss)
             y == Episode_get_all_of_season(x)
             c == << <<"Episode::get_all_of_season", x.id>> >>
             rest == SeasonEntries(Tail(ss), user)
         IN  IF ~y.ok THEN [vals |-> rest.vals, calls |-> c \o rest.calls]
             ELSE LET es == EpisodeEntries(y.val, user)
                  IN  [vals |-> <<[id |-> x.id, season_number |-> x.season_number,
                                   episodes |-> es.vals]>> \o rest.vals,
                       calls |-> c \o es.calls \o rest.calls]

get_for_show(m, user) ==
    LET ss == Season_get_all(m.id)
        c1 == << <<"Season::get_all", m.id>> >>
    IN  IF ~ss.ok THEN Reply(Err(ss.err), c1)
        ELSE LET e == SeasonEntries(ss.val, user)
             IN  Reply(Ok([seasons |-> e.vals]), c1 \o e.calls)

\* Dispatch sending only Movie and unset to the streamable branch.
Dispatch_EpisodeAsShow(m, user) ==
    IF m.media_type \in {Some("Tv"), Some("Episode")} THEN get_for_show(m, user)
    ELSE get_for_streamable(m, user)

\* Lines 127-132: the dispatch on media type.
Dispatch(m, user) ==
    IF m.media_type = Some("Tv") THEN get_for_show(m, user)
    ELSE get_for_streamable(m, user)

get_extra_info_by_id(id, user) ==
    LET m == Media_get(id)
        c1 == << <<"Media::get", id>> >>
    IN  IF ~m.ok THEN Reply(Err(m.err), c1)
        ELSE LET r == Dispatch(m.val, user)
             IN  Reply(r.result, c1 \o r.calls)

GetDetail(id, user) ==
    /\ resp' = Served("get_extra_info_by_id", id, user, None, get_extra_info_by_id(id, user))
    /\ UNCHANGED <<catalog, progress, recorded>>

----------------------------------------------------------------------------
\* update_media_by_id (PATCH /api/v1/media/<id>)

\* UpdateMedia::update: the media table after the patch; a None field is left alone.
UpdateMedia_update(data, id) ==
    IF Broken("UpdateMedia::update", id) THEN Err("DatabaseError")
    ELSE IF id \notin DOMAIN media \/ media[id] = None THEN Ok(media)
    ELSE Ok([media EXCEPT ![id] =
                Some([Unwrap(@) EXCEPT !.name = UnwrapOr(data.name, @),
                                       !.media_type = IF IsSome(data.media_type)
                                                      THEN data.media_type ELSE @])])

update_media_by_id(id, data) ==
    LET r == UpdateMedia_update(data, id)
        c == << <<"UpdateMedia::update", id>> >>
    IN  IF r.ok THEN Reply(Ok("NoContent"), c) ELSE Reply(Err("NotModified"), c)

UpdateMedia(id, data) ==
    /\ resp' = Served("update_media_by_id", id, 0, data, update_media_by_id(id, data))
    /\ media' = IF UpdateMedia_update(data, id).ok THEN UpdateMedia_update(data, id).val ELSE media
    /\ UNCHANGED <<mediafiles, genres, seasons, episodes, failing, progress, recorded>>

----------------------------------------------------------------------------
\* delete_media_by_id (DELETE /api/v1/media/<id>)

\* Media::delete: the media table without the row.
Media_delete(id) ==
    IF Broken("Media::delete", id) THEN Err("DatabaseError")
    ELSE IF id \in DOMAIN media THEN Ok([media EXCEPT ![id] = None]) ELSE Ok(media)

delete_media_by_id(id) ==
    LET r == Media_delete(id)
        c == << <<"Media::delete", id>> >>
    IN  IF r.ok THEN Reply(Ok("Ok"), c) ELSE Reply(Err(r.err), c)

DeleteMedia(id) ==
    /\ resp' = Served("delete_media_by_id", id, 0, None, delete_media_by_id(id))
    /\ media' = IF Media_delete(id).ok THEN Media_delete(id).val ELSE media
    /\ UNCHANGED <<mediafiles, genres, seasons, episodes, failing, progress, recorded>>

----------------------------------------------------------------------------
\* tmdb_search (GET /api/v1/media/tmdb_search)

\* Line 269: the number of candidates asked of the provider.
SearchLimit == 15

\* tmdb_search taking every string other than "tv" for a movie search.
tmdb_search_DefaultMovie(query, year, media_type, found) ==
    Reply(Ok(found),
          << <<"Tmdb::new", IF media_type = "tv" THEN "Tv" ELSE "Movie">>,
             <<"Tmdb::search_many", [query |-> query, year |-> year, limit |-> SearchLimit]>> >>)

\* Lines 261-269; `found` is what the provider's search_many returns.
tmdb_search(query, year, media_type, found) ==
    IF media_type \notin {"movie", "tv"} THEN Reply(Err("InvalidMediaType"), <<>>)
    ELSE Reply(Ok(found),
               << <<"Tmdb::new", IF media_type = "movie" THEN "Movie" ELSE "Tv">>,
                  <<"Tmdb::search_many", [query |-> query, year |-> year, limit |-> SearchLimit]>> >>)

SearchExternal(query, year, media_type, found) ==
    /\ resp' = Served("tmdb_search", 0, 0,
                      [query |-> query, year |-> year, media_type |-> media_type, found |-> found],
                      tmdb_search(query, year, media_type, found))
    /\ UNCHANGED <<catalog, progress, recorded>>

----------------------------------------------------------------------------
\* rematch (PATCH /api/v1/media/<id>/match)

\* rematch with the commented-out body of lines 292-298 restored.
rematch_Attempt(id, tmdb_id) ==
    IF ~Media_get(id).ok THEN Reply(Err(Media_get(id).err), << <<"Media::get", id>> >>)
    ELSE Reply(Ok("Ok"), << <<"Media::get", id>>, <<"EventTx::lock", id>>,
                            <<"thread::spawn", tmdb_id>> >>)

\* Lines 291-300: the body is commented out; the handler answers 503.
rematch(id, tmdb_id) == Reply(Ok("ServiceUnavailable"), <<>>)

RematchMedia(id, tmdb_id) ==
    /\ resp' = Served("rematch", id, 0, tmdb_id, rematch(id, tmdb_id))
    /\ UNCHANGED <<catalog, progress, recorded>>

----------------------------------------------------------------------------
\* map_progress (POST /api/v1/media/<id>/progress)

map_progress(id, offset, user) ==
    IF Broken("Progress::set", id)
    THEN Reply(Err("DatabaseError"), << <<"Progress::set", id>> >>)
    ELSE Reply(Ok("Ok"), << <<"Progress::set", id>> >>)

RecordProgress(id, offset, user) ==
    /\ resp' = Served("map_progress", id, user, offset, map_progress(id, offset, user))
    /\ IF map_progress(id, offset, user).result.ok
       THEN /\ progress' = Progress_set(offset, user, id)
            /\ recorded' = [recorded EXCEPT ![<<user, id>>] = Some(offset)]
       ELSE UNCHANGED <<progress, recorded>>
    /\ UNCHANGED catalog

----------------------------------------------------------------------------
\* Initial catalogs

RECURSIVE SeqsUpTo(_, _)
SeqsUpTo(S, n) ==
    IF n = 0 THEN {<<>>}
    ELSE LET shorter == SeqsUpTo(S, n - 1)
         IN  shorter \cup {Append(s, x) : s \in {t \in shorter : Len(t) = n - 1}, x \in S}

\* File lists of media item m with the given durations, fully probed otherwise.
FilesWithDurations(m, ds) ==
    [i \in 1..Len(ds) |-> MediaFile(10 * m + i, m, ds[i], Some("H264"), Some("AAC"), Some("1080p"))]

NoResp == [op |-> "none", id |-> 0, user |-> 0, arg |-> None, result |-> Ok(None), calls |-> <<>>]

NoProgress ==
    /\ progress = {}
    /\ recorded = [k \in Users \X MediaIds |-> None]
    /\ resp = NoResp

\* A streamable item (1) of any streamable type with any short file list,
\* beside a show (2) with no seasons.
InitStream ==
    /\ \E ty \in MediaTypes \ {Some("Tv")} :
          media = (1 :> Some(Media(1, ty))) @@ (2 :> Some(Media(2, Some("Tv"))))
    /\ \E ds \in SeqsUpTo({None, Some(0), Some(59), Some(1800), Some(7230)}, MaxFiles) :
          mediafiles = (1 :> FilesWithDurations(1, ds)) @@ (2 :> <<>>)
    /\ genres = (1 :> <<"Drama">>) @@ (2 :> <<>>)
    /\ seasons = (2 :> <<>>)
    /\ episodes = <<>>
    /\ failing \in SUBSET {<<"Media::get", 1>>, <<"MediaFile::get_of_media", 1>>,
                           <<"Genre::get_by_media", 1>>}
    /\ NoProgress

\* What the catalog can hold for one episode: its file lookup fails, or it has
\* one of these file lists (durations in storage order).
EpisodeOptions ==
    {[fail |-> TRUE, ds |-> <<>>]} \cup
    {[fail |-> FALSE, ds |-> d] :
        d \in {<<>>, <<None>>, <<Some(1800)>>, <<Some(2400)>>,
               <<Some(1800), None>>, <<None, Some(2400)>>}}

EpisodesOfSeason(s, n) == [i \in 1..n |-> Episode(10 * (s - 18) + i, s, i)]

\* A show (2) with two seasons: up to MaxEpisodes episodes in season 21, at
\* most one in season 22, each episode in any of EpisodeOptions.
InitShow ==
    \E n1 \in 0..MaxEpisodes, n2 \in 0..1 :
      LET eps == {30 + i : i \in 1..n1} \cup {40 + i : i \in 1..n2}
      IN  \E opt \in [eps -> EpisodeOptions],
             showDs \in {<<>>, <<None>>, <<Some(1800)>>},
             showFail \in SUBSET {<<"MediaFile::get_of_media", 2>>,
                                  <<"Episode::get_all_of_tv", 2>>} :
            /\ media = (2 :> Some(Media(2, Some("Tv"))))
                       @@ [e \in eps |-> Some(Media(e, Some("Episode")))]
            /\ mediafiles = (2 :> FilesWithDurations(2, showDs))
                            @@ [e \in eps |-> FilesWithDurations(e, opt[e].ds)]
            /\ genres = (2 :> <<"Comedy">>)
            /\ seasons = (2 :> <<Season(21, 1), Season(22, 2)>>)
            /\ episodes = (21 :> EpisodesOfSeason(21, n1)) @@ (22 :> EpisodesOfSeason(22, n2))
            /\ failing = showFail \cup
                         {<<"MediaFile::get_of_media", e>> : e \in {x \in eps : opt[x].fail}}
            /\ NoProgress

\* File lists of media item m with the given (codec, audio, resolution) triples.
FilesWithCodecs(m, ms) ==
    [i \in 1..Len(ms) |-> MediaFile(10 * m + i, m, Some(1800), ms[i][1], ms[i][2], ms[i][3])]

CodecTriples == {None, Some("H264")} \X {None, Some("AAC")} \X {None, Some("1080p")}

\* A streamable item (1) with any short list of files, each with any of its
\* codec, audio codec and resolution missing.
InitVersions ==
    /\ \E ty \in MediaTypes \ {Some("Tv")} : media = (1 :> Some(Media(1, ty)))
    /\ \E ms \in SeqsUpTo(CodecTriples, MaxFiles) : mediafiles = (1 :> FilesWithCodecs(1, ms))
    /\ genres = (1 :> <<"Drama">>)
    /\ seasons = <<>>
    /\ episodes = <<>>
    /\ failing \in SUBSET {<<"MediaFile::get_of_media", 1>>}
    /\ NoProgress

DetailEpisodeOptions ==
    {[fail |-> TRUE, ms |-> <<>>]} \cup
    {[fail |-> FALSE, ms |-> m] :
        m \in {<<>>, <<<<Some("H264"), Some("AAC"), Some("1080p")>>>>,
               <<<<None, None, None>>, <<Some("H264"), Some("AAC"), Some("1080p")>>>>}}

\* A show (2) with two seasons whose episode lookups may fail: up to
\* MaxEpisodes episodes in season 21, at most one in season 22, each episode's
\* file lookup failing or giving zero, one or two files.
InitSeasons ==
    \E n1 \in 0..MaxEpisodes, n2 \in 0..1 :
      LET eps == {30 + i : i \in 1..n1} \cup {40 + i : i \in 1..n2}
      IN  \E opt \in [eps -> DetailEpisodeOptions],
             showFail \in SUBSET {<<"Season::get_all", 2>>,
                                  <<"Episode::get_all_of_season", 21>>,
                                  <<"Episode::get_all_of_season", 22>>} :
            /\ media = (2 :> Some(Media(2, Some("Tv"))))
                       @@ [e \in eps |-> Some(Media(e, Some("Episode")))]
            /\ mediafiles = [e \in eps |-> FilesWithCodecs(e, opt[e].ms)]
            /\ genres = (2 :> <<"Comedy">>)
            /\ seasons = (2 :> <<Season(21, 1), Season(22, 2)>>)
            /\ episodes = (21 :> EpisodesOfSeason(21, n1)) @@ (22 :> EpisodesOfSeason(22, n2))
            /\ failing = showFail \cup
                         {<<"MediaFile::get_of_media", e>> : e \in {x \in eps : opt[x].fail}}
            /\ NoProgress

InitDetail == InitVersions \/ InitSeasons

NextDetail == \E id \in {1, 2, 31, 9}, u \in Users : GetDetail(id, u)

SpecDetail == InitDetail /\ [][NextDetail]_vars

\* A small library: a streamable item (1) with two files, a show (2) with one
\* season and one episode (31), nobody's progress recorded yet.
InitLibrary ==
    /\ \E ty \in {None, Some("Movie")} :
          media = (1 :> Some(Media(1, ty))) @@ (2 :> Some(Media(2, Some("Tv"))))
                  @@ (31 :> Some(Media(31, Some("Episode"))))
    /\ mediafiles = (1 :> <<MediaFile(11, 1, None, None, None, None),
                            MediaFile(12, 1, Some(7230), Some("H264"), Some("AAC"), Some("1080p"))>>)
                    @@ (2 :> FilesWithDurations(2, <<Some(1800)>>))
                    @@ (31 :> FilesWithDurations(31, <<Some(1800)>>))
    /\ genres = (1 :> <<"Drama">>) @@ (2 :> <<"Comedy">>)
    /\ seasons = (2 :> <<Season(21, 1)>>)
    /\ episodes = (21 :> EpisodesOfSeason(21, 1))
    /\ failing \in {{}, {<<"Progress::set", 31>>, <<"UpdateMedia::update", 1>>, <<"Media::delete", 1>>}}
    /\ NoProgress

Patches == {[name |-> None, media_type |-> Some(t)] : t \in {"Movie", "Tv", "Episode"}}
            \cup {[name |-> Some("renamed"), media_type |-> None]}

Next ==
    \/ \E id \in {1, 2, 31, 9} : GetSummary(id)
    \/ \E id \in {1, 2, 31, 9}, u \in Users : GetDetail(id, u)
    \/ \E id \in {1, 9}, data \in Patches : UpdateMedia(id, data)
    \/ \E id \in {1, 9} : DeleteMedia(id)
    \/ \E ty \in {"movie", "tv", "bogus", ""}, year \in {None, Some(1999)},
          found \in {<<>>, <<"Heat (1995)", "Heat (1986)">>} :
          SearchExternal("heat", year, ty, found)
    \/ \E id \in {1, 9}, tmdb_id \in {603} : RematchMedia(id, tmdb_id)
    \/ \E id \in {1, 31}, offset \in {300, 600}, u \in Users : RecordProgress(id, offset, u)

Spec == InitLibrary /\ [][Next]_vars

NextSummary == \E id \in {1, 2, 31, 9} : GetSummary(id)

SpecStream == InitStream /\ [][NextSummary]_vars
SpecShow == InitShow /\ [][NextSummary]_vars

----------------------------------------------------------------------------
\* Claims about get_media_by_id

\* The request just served was get_media_by_id on a row that resolves.
SummaryOf(tys) ==
    /\ resp.op = "get_media_by_id"
    /\ Media_get(resp.id).ok
    /\ Media_get(resp.id).val.media_type \in tys

Streamable == {None, Some("Movie"), Some("Episode")}

StoredFiles(id) == IF id \in DOMAIN mediafiles THEN mediafiles[id] ELSE <<>>

\* C1: a streamable item whose file lookup succeeds with zero files gets
\* duration = 0 and duration_pretty = "0 min" from GetSummary, not an error.
C1_EmptyFileListIsZero ==
    (/\ SummaryOf(Streamable)
     /\ ~Broken("MediaFile::get_of_media", resp.id)
     /\ ~Broken("Genre::get_by_media", resp.id)
     /\ StoredFiles(resp.id) = <<>>)
    => (/\ resp.result.ok
        /\ resp.result.val.duration = 0
        /\ resp.result.val.duration_pretty = "0 min")

\* C2: a last file without a duration counts as duration 0 and GetSummary
\* still succeeds; a last file with duration d gives duration = d.
C2_MissingDurationIsZero ==
    (/\ SummaryOf(Streamable)
     /\ ~Broken("MediaFile::get_of_media", resp.id)
     /\ ~Broken("Genre::get_by_media", resp.id)
     /\ StoredFiles(resp.id) # <<>>)
    => LET last == Last(StoredFiles(resp.id))
       IN  /\ resp.result.ok
           /\ resp.result.val.duration = (IF IsSome(last.duration) THEN Unwrap(last.duration) ELSE 0)

\* The episodes the catalog lists for show id, season by season.
ListedEpisodes(id) == EpisodesOf(IF id \in DOMAIN seasons THEN seasons[id] ELSE <<>>)

\* C3: for a Tv item that resolves, GetSummary returns a duration_pretty whose
\* episode count is the number of episodes the episode listing returns,
\* whatever files the episodes or the show itself have.
C3_EpisodeCountIsListingLength ==
    (/\ SummaryOf({Some("Tv")})
     /\ ~Broken("Genre::get_by_media", resp.id)
     /\ ~Broken("Episode::get_all_of_tv", resp.id))
    => (/\ resp.result.ok
        /\ \E h \in 0..(Len(ListedEpisodes(resp.id)) * 3) :
              resp.result.val.duration_pretty =
                  ToString(Len(ListedEpisodes(resp.id))) \o " episodes | " \o ToString(h) \o " hr")

\* What one listed episode adds to the show's total: its last stored file's
\* duration, nothing if its lookup fails, it has no file, or that file is unprobed.
Contribution(e) ==
    IF Broken("MediaFile::get_of_media", e.media.id) \/ StoredFiles(e.media.id) = <<>> THEN 0
    ELSE IF Last(StoredFiles(e.media.id)).duration = None THEN 0
    ELSE Last(StoredFiles(e.media.id)).duration[1]

RECURSIVE SumTo(_, _)
SumTo(eps, n) == IF n = 0 THEN 0 ELSE Contribution(eps[n]) + SumTo(eps, n - 1)

\* Whether the lookups about the show row itself let get_media_by_id through.
ShowLevelOk(id) ==
    /\ \/ Broken("MediaFile::get_of_media", id)
       \/ (StoredFiles(id) # <<>> /\ Last(StoredFiles(id)).duration # None)
    /\ ~Broken("Genre::get_by_media", id)
    /\ ~Broken("Episode::get_all_of_tv", id)

\* C4: for a Tv item the hours figure is the integer quotient by 3600 of the
\* sum of the episodes' last-file durations (failed lookups, empty lists and
\* unprobed last files add nothing), and whether the call succeeds is decided
\* by the show's own lookups alone, never by an episode's file data.
C4_ShowHoursAreSumOfLastFiles ==
    SummaryOf({Some("Tv")})
    => /\ resp.result.ok = ShowLevelOk(resp.id)
       /\ resp.result.ok =>
             resp.result.val.duration_pretty =
                 ToString(Len(ListedEpisodes(resp.id))) \o " episodes | "
                 \o ToString(SumTo(ListedEpisodes(resp.id), Len(ListedEpisodes(resp.id))) \div 3600)
                 \o " hr"

\* The scenario of three episodes, 1800 s, 2400 s and one whose lookup fails.
C4_Witness ==
    /\ SummaryOf({Some("Tv")})
    /\ resp.result.ok
    /\ resp.result.val.duration_pretty = "3 episodes | 1 hr"
    /\ \E i \in 1..Len(ListedEpisodes(resp.id)) :
          Broken("MediaFile::get_of_media", ListedEpisodes(resp.id)[i].media.id)
    /\ \E i \in 1..Len(ListedEpisodes(resp.id)) :
          StoredFiles(ListedEpisodes(resp.id)[i].media.id) = <<>>

----------------------------------------------------------------------------
\* Claims about get_extra_info_by_id

\* The request just served was get_extra_info_by_id on a row that resolves.
DetailOf(tys) ==
    /\ resp.op = "get_extra_info_by_id"
    /\ Media_get(resp.id).ok
    /\ Media_get(resp.id).val.media_type \in tys

StoredSeasons(id) == IF id \in DOMAIN seasons THEN seasons[id] ELSE <<>>
StoredEpisodes(s) == IF s \in DOMAIN episodes THEN episodes[s] ELSE <<>>
IdsOf(xs) == [i \in 1..Len(xs) |-> xs[i].id]

\* The seasons of show id whose episode lookup works, in catalog order.
ReadableSeasons(id) ==
    SelectSeq(StoredSeasons(id), LAMBDA x : ~Broken("Episode::get_all_of_season", x.id))

\* The episodes of season s whose file lookup works, in catalog order.
ReadableEpisodes(s) ==
    SelectSeq(StoredEpisodes(s), LAMBDA z : ~Broken("MediaFile::get_of_media", z.media.id))

\* C5: GetDetail on a Tv item whose season listing succeeds does not fail; a
\* season whose episode lookup failed and an episode whose file lookup failed
\* are absent, and every other season and episode appears, in catalog order.
C5_ShowDetailOmitsFailedLookups ==
    (DetailOf({Some("Tv")}) /\ ~Broken("Season::get_all", resp.id))
    => /\ resp.result.ok
       /\ IdsOf(resp.result.val.seasons) = IdsOf(ReadableSeasons(resp.id))
       /\ \A i \in 1..Len(resp.result.val.seasons) :
             IdsOf(resp.result.val.seasons[i].episodes)
                 = IdsOf(ReadableEpisodes(resp.result.val.seasons[i].id))

\* One season's lookup failed, and in the season that is shown one episode's
\* file lookup failed while another episode is listed.
C5_Witness ==
    /\ DetailOf({Some("Tv")})
    /\ resp.result.ok
    /\ Len(resp.result.val.seasons) = 1
    /\ Len(StoredSeasons(resp.id)) = 2
    /\ Len(resp.result.val.seasons[1].episodes) = 1
    /\ Len(StoredEpisodes(resp.result.val.seasons[1].id)) = 2

\* The display name the Version Lister is specified to give a file.
SpecifiedDisplayName(f) ==
    (IF f.codec = None THEN "Unknown VC" ELSE f.codec[1]) \o " - "
    \o (IF f.audio = None THEN "Unknown AC" ELSE f.audio[1]) \o " - "
    \o (IF f.original_resolution = None THEN "Unknown res" ELSE f.original_resolution[1])
    \o " - Library " \o ToString(f.library_id)

VersionsAsSpecified(vs, fs) ==
    /\ Len(vs) = Len(fs)
    /\ \A i \in 1..Len(vs) :
          /\ vs[i].id = fs[i].id
          /\ vs[i].file = fs[i].target_file
          /\ vs[i].display_name = SpecifiedDisplayName(fs[i])

\* C7: versions holds one descriptor per file in storage order, each named
\* "<codec> - <audio> - <resolution> - Library <library_id>" with "Unknown VC",
\* "Unknown AC" and "Unknown res" for the absent parts, in the streamable
\* branch and for the episodes inside a show.
C7_VersionsAsSpecified ==
    (resp.op = "get_extra_info_by_id" /\ resp.result.ok)
    => IF Media_get(resp.id).val.media_type = Some("Tv")
       THEN \A i \in 1..Len(resp.result.val.seasons) :
              \A j \in 1..Len(resp.result.val.seasons[i].episodes) :
                 LET e == resp.result.val.seasons[i].episodes[j]
                 IN  VersionsAsSpecified(e.versions, StoredFiles(e.id))
       ELSE VersionsAsSpecified(resp.result.val.versions, StoredFiles(resp.id))

\* C10: GetDetail dispatches once on the media type: a Movie, Episode or
\* untyped item gets only {progress, versions} and no season or episode
\* lookup is made for it, a Tv item gets only {seasons}, and an id that does
\* not resolve fails with NotFound after the media lookup alone.
C10_DetailDispatch ==
    resp.op = "get_extra_info_by_id"
    => LET m == Media_get(resp.id)
           fns == {resp.calls[i][1] : i \in 1..Len(resp.calls)}
       IN  /\ Cardinality({i \in 1..Len(resp.calls) : resp.calls[i][1] = "Media::get"}) = 1
           /\ ~m.ok => /\ resp.result = Err("NotFoundError")
                       /\ resp.calls = << <<"Media::get", resp.id>> >>
           /\ (m.ok /\ m.val.media_type \in Streamable)
                 => /\ fns \cap {"Season::get_all", "Episode::get_all_of_season",
                                 "Episode::get_all_of_tv"} = {}
                    /\ resp.result.ok => DOMAIN resp.result.val = {"progress", "versions"}
           /\ (m.ok /\ m.val.media_type = Some("Tv"))
                 => (resp.result.ok => DOMAIN resp.result.val = {"seasons"})

\* GetDetail has answered for an item of type Episode.
C10_Witness ==
    /\ DetailOf({Some("Episode")})
    /\ resp.result.ok
    /\ Len(resp.result.val.versions) > 0

----------------------------------------------------------------------------
\* Claims about map_progress, tmdb_search and rematch

\* C6: the progress store holds at most one row per (user, media); GetDetail
\* on a streamable item reports the offset of the latest RecordProgress of
\* that (user, media), 0 if there was none; and repeating the RecordProgress
\* just served leaves the store as it is.
C6_ProgressIsLastRecorded ==
    /\ \A u \in Users, m \in MediaIds : Cardinality(ProgressRows(u, m)) <= 1
    /\ (resp.op = "get_extra_info_by_id" /\ resp.result.ok
            /\ "progress" \in DOMAIN resp.result.val)
          => resp.result.val.progress = UnwrapOr(recorded[<<resp.user, resp.id>>], 0)
    /\ (resp.op = "map_progress" /\ resp.result.ok)
          => Progress_set(resp.arg, resp.user, resp.id) = progress

\* GetDetail reports 600 to a user while another user's row for the same
\* item holds another offset.
C6_Witness ==
    /\ resp.op = "get_extra_info_by_id"
    /\ resp.result.ok
    /\ "progress" \in DOMAIN resp.result.val
    /\ resp.result.val.progress = 600
    /\ \E r \in progress : r.media_id = resp.id /\ r.user_id # resp.user /\ r.delta = 300

\* C8: rematch always answers that the service is unavailable and attempts
\* nothing: no catalog read or write, no background refresh, no event.
C8_RematchUnavailable ==
    /\ [](resp.op = "rematch" => (resp.result = Ok("ServiceUnavailable") /\ resp.calls = <<>>))
    /\ [][resp'.op = "rematch" => UNCHANGED <<catalog, progress, recorded>>]_vars

\* rematch has been asked for an item that is in the catalog.
C8_Witness ==
    /\ resp.op = "rematch"
    /\ Media_get(resp.id).ok
    /\ progress # {}

\* C9: tmdb_search with a type other than "movie" or "tv" fails with
\* InvalidMediaType without calling the provider; otherwise it makes one
\* search for SearchLimit candidates and returns what the provider found.
C9_SearchValidatesType ==
    resp.op = "tmdb_search"
    => IF resp.arg.media_type \in {"movie", "tv"}
       THEN /\ resp.result = Ok(resp.arg.found)
            /\ Len(resp.calls) = 2
            /\ resp.calls[1] = <<"Tmdb::new", IF resp.arg.media_type = "movie" THEN "Movie" ELSE "Tv">>
            /\ resp.calls[2] = <<"Tmdb::search_many",
                                 [query |-> resp.arg.query, year |-> resp.arg.year, limit |-> 15]>>
       ELSE /\ resp.result = Err("InvalidMediaType")
            /\ resp.calls = <<>>

\* A search with an unknown type has been refused.
C9_Witness ==
    /\ resp.op = "tmdb_search"
    /\ resp.arg.media_type = "bogus"
    /\ ~resp.result.ok

====
